---- MODULE Spec2Model ----
(***************************************************************************)
(* Delivery core of the WhatsApp bulk-message server                       *)
(* (src/backend/server.js, final variant, lines 330-1160, and              *)
(* src/backend/services/messageLogger.js): the session flags driven by the *)
(* transport's events, the better-queue delivery queue and its worker, the *)
(* send-messages request handler, phone-number formatting and the campaign *)
(* log.                                                                    *)
(*                                                                         *)
(* Strings are sequences of one-character strings, so that trimming,       *)
(* prefix tests and lengths are computed as the code computes them.        *)
(***************************************************************************)
EXTENDS Integers, Sequences, FiniteSets, TLC

(* ------------------------------ bounds -------------------------------- *)

\* Longest contact list of one campaign request.
MaxContacts == 2
MaxClock == 1
MaxRestarts == 1

\* By how many digits a subscriber number may miss its country's length.
LengthSlack == 1

\* Reconnection timers pending when a repeated disconnected event is still
\* taken into account.
MaxPending == 2

\* The campaign requests that may run concurrently.
Campaigns == {"c1", "c2"}

\* The pairing payloads the transport may hand to the qr handler.
QrPayloads == {"qrA", "qrB"}

(* -------------------------- program constants ------------------------- *)

MAX_RECONNECT_ATTEMPTS == 5

\* Options of the queue (server.js 504-508).
\* A queue that runs two workers.
concurrent_two == 1 + 1
concurrent == 1
afterProcessDelay == 3000
retries == 2

\* Base delay of the reconnection timers (server.js 577, 595).
ReconnectBaseDelay == 5000

(* ------------------------------ strings ------------------------------- *)

Digits == {"0", "1", "2", "3", "4", "5", "6", "7", "8", "9"}

IsPrefix(p, s) == Len(p) <= Len(s) /\ SubSeq(s, 1, Len(p)) = p

\* String.prototype.trim on the characters the model uses.
RECURSIVE TrimLeft(_)
TrimLeft(s) == IF s # <<>> /\ Head(s) = " " THEN TrimLeft(Tail(s)) ELSE s

RECURSIVE TrimRight(_)
TrimRight(s) ==
    IF s # <<>> /\ s[Len(s)] = " " THEN TrimRight(SubSeq(s, 1, Len(s) - 1)) ELSE s

Trim(s) == TrimRight(TrimLeft(s))

\* The grave accent, named since it cannot be written in a string here,
\* and the apostrophe.
GraveAccent == "grave"
Apostrophe == "'"

\* GetSubstitution of String.prototype.replace for a pattern without capture
\* groups: in the replacement text $$ stands for $, $& for the matched text,
\* $ with a grave accent for the text before the match and $ with an
\* apostrophe for the text after it; any other $ stands for itself.
RECURSIVE GetSubstitution(_, _, _, _)
GetSubstitution(matched, before, after, replacement) ==
    IF replacement = <<>> THEN <<>>
    ELSE IF Head(replacement) = "$" /\ Len(replacement) >= 2
                /\ replacement[2] \in {"$", "&", GraveAccent, Apostrophe}
    THEN (CASE replacement[2] = "$" -> <<"$">>
            [] replacement[2] = "&" -> matched
            [] replacement[2] = GraveAccent -> before
            [] OTHER -> after)
         \o GetSubstitution(matched, before, after,
                            SubSeq(replacement, 3, Len(replacement)))
    ELSE <<Head(replacement)>>
         \o GetSubstitution(matched, before, after, Tail(replacement))

\* The replacement text taken as it is.
Verbatim(matched, before, after, replacement) == replacement

\* The text a match is replaced by.
Substitution(matched, before, after, replacement) ==
    GetSubstitution(matched, before, after, replacement)

\* str.replace(/pattern/g, by) from position i of str on, for a pattern
\* without special characters.
RECURSIVE ReplaceFrom(_, _, _, _)
ReplaceFrom(str, pattern, by, i) ==
    IF i > Len(str) THEN <<>>
    ELSE IF IsPrefix(pattern, SubSeq(str, i, Len(str)))
    THEN Substitution(pattern, SubSeq(str, 1, i - 1),
                      SubSeq(str, i + Len(pattern), Len(str)), by)
         \o ReplaceFrom(str, pattern, by, i + Len(pattern))
    ELSE <<str[i]>> \o ReplaceFrom(str, pattern, by, i + 1)

ReplaceAll(str, pattern, by) == ReplaceFrom(str, pattern, by, 1)

\* !x?.trim() : x is missing (null) or trims to the empty string.
Null == <<"null">>
IsBlank(s) == s = Null \/ Trim(s) = <<>>

(* ----------------------- phone-number formatting ---------------------- *)

\* The table in the order Object.keys yields its integer keys (ascending).
countryCodes ==
    << [code |-> <<"1">>, length |-> 10, country |-> ""],
       [code |-> <<"7">>, length |-> 10, country |-> "Russia"],
       [code |-> <<"2","0">>, length |-> 10, country |-> "Egypt"],
       [code |-> <<"2","7">>, length |-> 9, country |-> "South Africa"],
       [code |-> <<"3","0">>, length |-> 10, country |-> "Greece"],
       [code |-> <<"3","1">>, length |-> 9, country |-> "Netherlands"],
       [code |-> <<"3","2">>, length |-> 9, country |-> "Belgium"],
       [code |-> <<"3","3">>, length |-> 9, country |-> "France"],
       [code |-> <<"3","4">>, length |-> 9, country |-> "Spain"],
       [code |-> <<"3","9">>, length |-> 10, country |-> "Italy"],
       [code |-> <<"4","1">>, length |-> 9, country |-> "Switzerland"],
       [code |-> <<"4","3">>, length |-> 10, country |-> "Austria"],
       [code |-> <<"4","4">>, length |-> 10, country |-> "UK"],
       [code |-> <<"4","5">>, length |-> 8, country |-> "Denmark"],
       [code |-> <<"4","6">>, length |-> 9, country |-> "Sweden"],
       [code |-> <<"4","7">>, length |-> 8, country |-> "Norway"],
       [code |-> <<"4","8">>, length |-> 9, country |-> "Poland"],
       [code |-> <<"4","9">>, length |-> 11, country |-> "Germany"],
       [code |-> <<"5","1">>, length |-> 9, country |-> "Peru"],
       [code |-> <<"5","2">>, length |-> 10, country |-> "Mexico"],
       [code |-> <<"5","4">>, length |-> 10, country |-> "Argentina"],
       [code |-> <<"5","5">>, length |-> 11, country |-> "Brazil"],
       [code |-> <<"5","6">>, length |-> 9, country |-> "Chile"],
       [code |-> <<"5","7">>, length |-> 10, country |-> "Colombia"],
       [code |-> <<"5","8">>, length |-> 10, country |-> "Venezuela"],
       [code |-> <<"6","0">>, length |-> 9, country |-> "Malaysia"],
       [code |-> <<"6","1">>, length |-> 9, country |-> "Australia"],
       [code |-> <<"6","2">>, length |-> 10, country |-> "Indonesia"],
       [code |-> <<"6","3">>, length |-> 10, country |-> "Philippines"],
       [code |-> <<"6","4">>, length |-> 9, country |-> "New Zealand"],
       [code |-> <<"6","5">>, length |-> 8, country |-> "Singapore"],
       [code |-> <<"6","6">>, length |-> 9, country |-> "Thailand"],
       [code |-> <<"8","1">>, length |-> 10, country |-> "Japan"],
       [code |-> <<"8","2">>, length |-> 10, country |-> "South Korea"],
       [code |-> <<"8","4">>, length |-> 9, country |-> "Vietnam"],
       [code |-> <<"8","6">>, length |-> 11, country |-> "China"],
       [code |-> <<"9","1">>, length |-> 10, country |-> "India"],
       [code |-> <<"9","2">>, length |-> 10, country |-> "Pakistan"],
       [code |-> <<"9","4">>, length |-> 9, country |-> "Sri Lanka"],
       [code |-> <<"9","5">>, length |-> 10, country |-> "Myanmar"],
       [code |-> <<"2","1","2">>, length |-> 9, country |-> "Morocco"],
       [code |-> <<"2","1","6">>, length |-> 8, country |-> "Tunisia"],
       [code |-> <<"2","3","4">>, length |-> 10, country |-> "Nigeria"],
       [code |-> <<"2","5","1">>, length |-> 9, country |-> "Ethiopia"],
       [code |-> <<"2","5","4">>, length |-> 9, country |-> "Kenya"],
       [code |-> <<"3","5","1">>, length |-> 9, country |-> "Portugal"],
       [code |-> <<"3","5","8">>, length |-> 10, country |-> "Finland"],
       [code |-> <<"3","8","0">>, length |-> 9, country |-> "Ukraine"],
       [code |-> <<"5","9","1">>, length |-> 8, country |-> "Bolivia"],
       [code |-> <<"5","9","3">>, length |-> 9, country |-> "Ecuador"],
       [code |-> <<"5","9","5">>, length |-> 9, country |-> "Paraguay"],
       [code |-> <<"5","9","8">>, length |-> 8, country |-> "Uruguay"],
       [code |-> <<"8","5","5">>, length |-> 8, country |-> "Cambodia"],
       [code |-> <<"8","5","6">>, length |-> 10, country |-> "Laos"],
       [code |-> <<"8","8","0">>, length |-> 10, country |-> "Bangladesh"],
       [code |-> <<"9","6","1">>, length |-> 8, country |-> "Lebanon"],
       [code |-> <<"9","6","2">>, length |-> 9, country |-> "Jordan"],
       [code |-> <<"9","6","6">>, length |-> 9, country |-> "Saudi Arabia"],
       [code |-> <<"9","6","8">>, length |-> 8, country |-> "Oman"],
       [code |-> <<"9","7","1">>, length |-> 9, country |-> "UAE"],
       [code |-> <<"9","7","2">>, length |-> 9, country |-> "Israel"],
       [code |-> <<"9","7","3">>, length |-> 8, country |-> "Bahrain"],
       [code |-> <<"9","7","4">>, length |-> 8, country |-> "Qatar"],
       [code |-> <<"9","7","7">>, length |-> 10, country |-> "Nepal"],
       [code |-> <<"1","7","5","8">>, length |-> 7, country |-> "Saint Lucia"],
       [code |-> <<"1","8","6","8">>, length |-> 7, country |-> "Trinidad and Tobago"],
       [code |-> <<"1","8","6","9">>, length |-> 7, country |-> "Saint Kitts and Nevis"],
       [code |-> <<"1","8","7","6">>, length |-> 7, country |-> "Jamaica"] >>

\* .replace(/[^\d+]/g, "") : keep digits and every '+'.
StripNonNumeric(s) == SelectSeq(s, LAMBDA ch : ch \in Digits \/ ch = "+")

\* .replace(/^0+/, "")
RECURSIVE StripLeadingZeros(_)
StripLeadingZeros(s) ==
    IF s # <<>> /\ Head(s) = "0" THEN StripLeadingZeros(Tail(s)) ELSE s

\* .replace(/^\+/, "") : one leading '+', if any.
StripLeadingPlus(s) == IF s # <<>> /\ Head(s) = "+" THEN Tail(s) ELSE s

\* "Special handling for US/Canada numbers" (server.js 804-806).
PrefixDomestic(s) ==
    IF Len(s) = 10 /\ ~IsPrefix(<<"1">>, s) THEN <<"1">> \o s ELSE s

\* Object.keys(countryCodes).sort((a, b) => b.length - a.length): a stable
\* sort, so codes of one length keep their key order.
RECURSIVE CodesByLengthDesc(_)
CodesByLengthDesc(n) ==
    IF n = 0 THEN <<>>
    ELSE SelectSeq(countryCodes, LAMBDA e : Len(e.code) = n) \o CodesByLengthDesc(n - 1)

LongestCode ==
    CHOOSE n \in 1..8 :
        /\ \E i \in 1..Len(countryCodes) : Len(countryCodes[i].code) = n
        /\ \A i \in 1..Len(countryCodes) : Len(countryCodes[i].code) <= n

\* The keys in their enumeration order, not sorted by length.
sortedCodes_unsorted == countryCodes

sortedCodes == CodesByLengthDesc(LongestCode)

\* The least element of a set of indexes, 0 for the empty set.
MinOrZero(S) == IF S = {} THEN 0 ELSE CHOOSE i \in S : \A j \in S : i <= j

\* The for loop of server.js 817-835: index of the first code of sortedCodes
\* that prefixes the number, 0 when none does.
FirstMatch(cleaned) ==
    MinOrZero({i \in 1..Len(sortedCodes) : IsPrefix(sortedCodes[i].code, cleaned)})

\* A result of formatPhoneNumber: the returned string, or the error thrown
\* by its catch block (server.js 859-862).
Formatted(cleaned) == [ok |-> TRUE, error |-> "", value |-> cleaned]
Rejected(message) ==
    [ok |-> FALSE, error |-> "Invalid phone number format: " \o message, value |-> <<>>]

\* The characters of a string as one string.
RECURSIVE Join(_)
Join(chars) == IF chars = <<>> THEN "" ELSE Head(chars) \o Join(Tail(chars))

\* countryCodes[code].country || code (server.js 828-830).
CountryOrCode(e) == IF e.country # "" THEN e.country ELSE Join(e.code)

\* The message of the error thrown at server.js 826-832.
LengthError(e) ==
    "Invalid number length for " \o CountryOrCode(e) \o ". Expected "
        \o ToString(e.length) \o " digits after country code."

\* A validation whose lower limit is one digit too low.
FinalValidation_short(cleaned) ==
    IF Len(cleaned) < 9 \/ Len(cleaned) > 15
    THEN Rejected("Invalid phone number length (should be between 10 and 15 digits)")
    ELSE Formatted(cleaned)

\* "Final validation" (server.js 844-848).
FinalValidation(cleaned) ==
    IF Len(cleaned) < 10 \/ Len(cleaned) > 15
    THEN Rejected("Invalid phone number length (should be between 10 and 15 digits)")
    ELSE Formatted(cleaned)

\* A check that lets a number of the wrong length pass on to the final
\* validation.
CheckMatch_lenient(cleaned, m, e) ==
    FinalValidation(IF m = 0 /\ Len(cleaned) = 10
                    THEN <<"1">> \o cleaned ELSE cleaned)

\* The length check of the matched code e (server.js 823-832), for m # 0,
\* then the domestic fallback for m = 0 (838-841) and the final validation.
CheckMatch(cleaned, m, e) ==
    IF m # 0 /\ Len(cleaned) - Len(e.code) # e.length
    THEN Rejected(LengthError(e))
    ELSE FinalValidation(IF m = 0 /\ Len(cleaned) = 10
                         THEN <<"1">> \o cleaned ELSE cleaned)

\* The part of formatPhoneNumber after the cleaning steps.
MatchCountryCode(cleaned, m) ==
    CheckMatch(cleaned, m,
               IF m = 0 THEN [code |-> <<>>, length |-> 0, country |-> ""]
               ELSE sortedCodes[m])

ValidateCleaned(cleaned) == MatchCountryCode(cleaned, FirstMatch(cleaned))

\* formatPhoneNumber: [ok |-> TRUE, value] or [ok |-> FALSE, error] (a throw).
formatPhoneNumber(phoneNumber) ==
    ValidateCleaned(
        PrefixDomestic(
            StripLeadingPlus(StripLeadingZeros(StripNonNumeric(phoneNumber)))))

\* The object validatePhoneNumber returns for the outcome f of
\* formatPhoneNumber (server.js 866-881).
ValidationOf(f, phoneNumber) ==
    [isValid |-> f.ok, formatted |-> f.value, error |-> f.error,
     original |-> phoneNumber]

validatePhoneNumber(phoneNumber) ==
    ValidationOf(formatPhoneNumber(phoneNumber), phoneNumber)

\* The cleaning steps of formatPhoneNumber (server.js 796-801), and the
\* number the table is searched with (796-806).
Cleaned(phoneNumber) ==
    StripLeadingPlus(StripLeadingZeros(StripNonNumeric(phoneNumber)))
Prefixed(phoneNumber) == PrefixDomestic(Cleaned(phoneNumber))

(* --------------------------- phone numbers ---------------------------- *)

\* Subscriber digits of a given length.
Subscriber(n) ==
    SubSeq(<<"2", "3", "4", "5", "6", "7", "8", "9", "0", "1", "2", "3", "4", "5",
             "6", "7", "8", "9">>, 1, n)

\* A table code followed by its subscriber length, or by up to LengthSlack
\* digits fewer or more.
TableNumbers ==
    {countryCodes[i].code \o Subscriber(countryCodes[i].length + d) :
        i \in 1..Len(countryCodes), d \in (0 - LengthSlack)..LengthSlack}

\* Ten digits with each first digit, and numbers no table code prefixes, of
\* 9 to 16 digits.
PlainNumbers ==
    {<<d>> \o Subscriber(9) : d \in Digits}
        \cup {<<"2", "2">> \o Subscriber(n) : n \in 7..14}

\* What users put before and into a number.
Decorations == {<<>>, <<"+">>, <<"0", "0">>, <<"+", "0">>, <<"+", "+">>, <<"+", " ">>}
DecoratedNumbers ==
    {pre \o number : pre \in Decorations,
                     number \in {<<"1">> \o Subscriber(10),
                                 <<"9", "7", "7">> \o Subscriber(10),
                                 <<"2", "2">> \o Subscriber(10),
                                 Subscriber(10),
                                 <<"1", "2", "0", "2", "+">> \o Subscriber(7),
                                 <<"(", "2", "0", "2", ")", " ">> \o Subscriber(7),
                                 <<"1", "8", "7", "6", "-">> \o Subscriber(7)}}

PhoneInputs ==
    TableNumbers \cup PlainNumbers \cup DecoratedNumbers
        \cup {<<>>, <<"+">>, <<"0", "0", "0", "0">>, <<"1", "2", "3">>}

(* ------------------------------- state -------------------------------- *)

VARIABLES
    \* session flags of server.js 463-465
    isClientReady, qrCode, reconnectAttempts,
    \* pending setTimeout callbacks that will call client.initialize()
    timers,
    \* the transport client: what it is doing, hence which events it can emit
    transport,
    \* history: an authenticated or ready event came after the qr event that
    \* set the current qrCode / reconnections scheduled since the last ready
    qrOutdated, scheduledSinceReady,
    \* the node process is running
    procUp,
    \* per campaign request: position of the handler, its request, the index of
    \* the contact whose send it awaits, its results and errors, its response
    pc, request, idx, results, errors, response,
    \* better-queue: waiting tasks, and per task its progress through the worker
    queue, tst,
    \* per task: callback invocations and sendMessage calls made
    cbCalls, sendAttempts,
    \* history: tasks in push order and in the order their worker started
    pushOrder, startOrder,
    \* campaign log: entries whose appendFile is outstanding, and the
    \* entries whose appendFile has completed
    pendingAppends, logFile,
    \* the text of the log file, and the entries the running process has
    \* passed to appendFile
    logText, appendCalls,
    \* the clock read by new Date(), in milliseconds, and the number of times
    \* the server has been started again
    now, restarts,
    \* a phone number handed to validatePhoneNumber, the value returned for
    \* it, and the value returned for the formatted number of that value
    phoneNumber, validation, revalidation

sessionVars == <<isClientReady, qrCode, reconnectAttempts, timers, transport,
                 qrOutdated, scheduledSinceReady>>
campaignVars == <<pc, request, idx, results, errors, response>>
queueVars == <<queue, tst, cbCalls, sendAttempts, pushOrder, startOrder>>
logVars == <<pendingAppends, logFile, logText, appendCalls>>
hostVars == <<now, restarts>>
phoneVars == <<phoneNumber, validation, revalidation>>
vars == <<sessionVars, procUp, hostVars, phoneVars, campaignVars, queueVars, logVars>>

Tasks == Campaigns \X (1..MaxContacts)

NoQr == "none"
NoRequest == [campaignName |-> Null, messageTemplate |-> Null,
              contactsIsArray |-> FALSE, contacts |-> <<>>]
NoResponse == [status |-> 0, statistics |-> [total |-> 0, successful |-> 0, failed |-> 0]]

(* ------------------------------- inputs ------------------------------- *)

Amit == [name |-> <<"A", "m", "i", "t">>,
         phoneNumber |-> <<"9", "8", "4", "1", "2", "3", "4", "5", "6", "7">>]
Bad == [name |-> <<"B", "a", "d">>, phoneNumber |-> <<"1", "2", "3">>]
Anon == [name |-> <<" ">>,
         phoneNumber |-> <<"+", "1", "2", "0", "2", "5", "5", "5", "0", "1", "0", "0">>]
ContactPool == {Amit, Bad, Anon}

\* The JSON value null as an element of the contacts array: it has no
\* properties.
NullEntry == [null |-> TRUE]
MalformedLists == {<<NullEntry>>, <<Amit, NullEntry>>}

ContactLists ==
    UNION {[1..n -> ContactPool] : n \in 0..MaxContacts} \cup MalformedLists

\* A contact whose name is the separator text of the log.
Marked == [name |-> <<"-", "-", "-", "E", "N", "D", "_", "E", "N", "T", "R", "Y", "-", "-", "-">>,
           phoneNumber |-> <<"9", "8", "4", "1", "2", "3", "4", "5", "6", "7">>]

\* Well-formed requests with one contact.
LogRequests ==
    [campaignName : {<<"P", "r", "o", "m", "o">>},
     messageTemplate : {<<"H", "i", " ", "{", "n", "a", "m", "e", "}", "!">>},
     contactsIsArray : {TRUE},
     contacts : {<<Amit>>, <<Bad>>, <<Marked>>}]

Requests ==
    [campaignName : {<<" ">>, <<"P", "r", "o", "m", "o">>},
     messageTemplate : {Null, <<"H", "i", " ", "{", "n", "a", "m", "e", "}", "!">>},
     contactsIsArray : BOOLEAN,
     contacts : ContactLists]

\* Contacts whose names contain the characters String.prototype.replace
\* treats specially in a replacement text, the placeholder itself, and
\* blanks around the name.
NumberOfAmit == <<"9", "8", "4", "1", "2", "3", "4", "5", "6", "7">>
Matched == [name |-> <<"$", "&">>, phoneNumber |-> NumberOfAmit]
Priced == [name |-> <<"U", "S", "$", "$">>, phoneNumber |-> NumberOfAmit]
Braced == [name |-> <<"{", "n", "a", "m", "e", "}">>, phoneNumber |-> NumberOfAmit]
Padded == [name |-> <<" ", "A", "m", "i", "t", " ">>, phoneNumber |-> NumberOfAmit]

\* Requests with one contact and a template that holds the placeholder once
\* or twice.
TemplateRequests ==
    [campaignName : {<<"P", "r", "o", "m", "o">>},
     messageTemplate : {<<"H", "i", " ", "{", "n", "a", "m", "e", "}", "!">>,
                        <<"{", "n", "a", "m", "e", "}", ",", "{", "n", "a", "m", "e", "}">>},
     contactsIsArray : {TRUE},
     contacts : {<<Amit>>, <<Matched>>, <<Priced>>, <<Braced>>, <<Padded>>}]

\* Requests whose contacts are all sent to.
QueueRequests ==
    [campaignName : {<<"P", "r", "o", "m", "o">>},
     messageTemplate : {<<"H", "i", " ", "{", "n", "a", "m", "e", "}", "!">>},
     contactsIsArray : {TRUE},
     contacts : UNION {[1..n -> {Amit}] : n \in 1..MaxContacts}]

\* The server after its module has been loaded.
ServerInit ==
    /\ isClientReady = FALSE
    /\ qrCode = NoQr
    /\ reconnectAttempts = 0
    /\ timers = <<>>
    /\ transport = "starting"
    /\ qrOutdated = FALSE
    /\ scheduledSinceReady = 0
    /\ procUp = TRUE
    /\ pc = [c \in Campaigns |-> "idle"]
    /\ request = [c \in Campaigns |-> NoRequest]
    /\ idx = [c \in Campaigns |-> 0]
    /\ results = [c \in Campaigns |-> <<>>]
    /\ errors = [c \in Campaigns |-> <<>>]
    /\ response = [c \in Campaigns |-> NoResponse]
    /\ queue = <<>>
    /\ tst = [t \in Tasks |-> "none"]
    /\ cbCalls = [t \in Tasks |-> 0]
    /\ sendAttempts = [t \in Tasks |-> 0]
    /\ pushOrder = <<>>
    /\ startOrder = <<>>
    /\ pendingAppends = <<>>
    /\ logFile = <<>>
    /\ logText = <<>>
    /\ appendCalls = <<>>
    /\ now = 0
    /\ restarts = 0

\* validatePhoneNumber has not been called.
NotValidated == [isValid |-> FALSE, formatted |-> <<>>, error |-> "", original |-> <<>>]

Init ==
    /\ ServerInit
    /\ phoneNumber = <<>>
    /\ validation = NotValidated
    /\ revalidation = NotValidated

(* --------------------- session: transport events ---------------------- *)

\* The guard with an off-by-one comparison.
CanReconnect_inclusive == reconnectAttempts <= MAX_RECONNECT_ATTEMPTS

\* server.js 569 and 586: the guard of both reconnecting handlers.
CanReconnect == reconnectAttempts < MAX_RECONNECT_ATTEMPTS

\* server.js 577: the delay is computed before reconnectAttempts++.
AuthFailureDelay(attemptsBefore) == ReconnectBaseDelay * (2 ^ attemptsBefore)

\* server.js 592-595: the delay is computed after reconnectAttempts++.
DisconnectedDelay(attemptsAfter) == ReconnectBaseDelay * attemptsAfter

\* client.on("qr")
OnQr(qr) ==
    /\ procUp
    /\ transport \in {"starting", "pairing"}
    /\ qrCode' = qr
    /\ transport' = "pairing"
    /\ qrOutdated' = FALSE
    /\ UNCHANGED <<isClientReady, reconnectAttempts, timers, scheduledSinceReady>>
    /\ UNCHANGED <<procUp, hostVars, phoneVars, campaignVars, queueVars, logVars>>

\* An authenticated handler that also resets the reconnection counter.
OnAuthenticated_resetting ==
    /\ procUp
    /\ transport \in {"starting", "pairing"}
    /\ isClientReady' = TRUE
    /\ reconnectAttempts' = 0
    /\ transport' = "authed"
    /\ qrOutdated' = (qrCode # NoQr)
    /\ UNCHANGED <<qrCode, timers, scheduledSinceReady>>
    /\ UNCHANGED <<procUp, hostVars, phoneVars, campaignVars, queueVars, logVars>>

\* client.on("authenticated")
OnAuthenticated ==
    /\ procUp
    /\ transport \in {"starting", "pairing"}
    /\ isClientReady' = TRUE
    /\ transport' = "authed"
    /\ qrOutdated' = (qrCode # NoQr)
    /\ UNCHANGED <<qrCode, reconnectAttempts, timers, scheduledSinceReady>>
    /\ UNCHANGED <<procUp, hostVars, phoneVars, campaignVars, queueVars, logVars>>

\* client.on("ready")
OnReady ==
    /\ procUp
    /\ transport = "authed"
    /\ isClientReady' = TRUE
    /\ qrCode' = NoQr
    /\ reconnectAttempts' = 0
    /\ transport' = "ready"
    /\ qrOutdated' = FALSE
    /\ scheduledSinceReady' = 0
    /\ UNCHANGED timers
    /\ UNCHANGED <<procUp, hostVars, phoneVars, campaignVars, queueVars, logVars>>

\* client.on("auth_failure"); the client is torn down by the transport.
OnAuthFailure ==
    /\ procUp
    /\ transport \in {"starting", "pairing", "authed"}
    /\ isClientReady' = FALSE
    /\ IF CanReconnect
       THEN /\ timers' = Append(timers,
                   [event |-> "auth_failure", attempt |-> scheduledSinceReady,
                    delay |-> AuthFailureDelay(reconnectAttempts)])
            /\ reconnectAttempts' = reconnectAttempts + 1
            /\ scheduledSinceReady' = scheduledSinceReady + 1
       ELSE UNCHANGED <<timers, reconnectAttempts, scheduledSinceReady>>
    /\ transport' = "dead"
    /\ UNCHANGED <<qrCode, qrOutdated>>
    /\ UNCHANGED <<procUp, hostVars, phoneVars, campaignVars, queueVars, logVars>>

\* client.on("disconnected"), for an event the transport emits in one of the
\* given states; the client is torn down by the transport.
DisconnectedIn(states) ==
    /\ procUp
    /\ transport \in states
    /\ isClientReady' = FALSE
    /\ IF CanReconnect
       THEN /\ reconnectAttempts' = reconnectAttempts + 1
            /\ timers' = Append(timers,
                   [event |-> "disconnected", attempt |-> scheduledSinceReady,
                    delay |-> DisconnectedDelay(reconnectAttempts + 1)])
            /\ scheduledSinceReady' = scheduledSinceReady + 1
       ELSE UNCHANGED <<timers, reconnectAttempts, scheduledSinceReady>>
    /\ transport' = "dead"
    /\ UNCHANGED <<qrCode, qrOutdated>>
    /\ UNCHANGED <<procUp, hostVars, phoneVars, campaignVars, queueVars, logVars>>

\* The session is lost: the transport emits disconnected.
OnDisconnected == DisconnectedIn({"authed", "ready"})

\* The transport emits disconnected once more while the client is being torn
\* down (it emits the event before the teardown, which it does not wait
\* for). The handler runs as for the first event.
OnDisconnectedAgain ==
    /\ Len(timers) < MaxPending
    /\ DisconnectedIn({"dead"})

\* A reconnection timer expires: client.initialize().
ReconnectTimer(i) ==
    /\ procUp
    /\ i \in 1..Len(timers)
    /\ timers' = SubSeq(timers, 1, i - 1) \o SubSeq(timers, i + 1, Len(timers))
    /\ transport' = "starting"
    /\ UNCHANGED <<isClientReady, qrCode, reconnectAttempts, qrOutdated,
                   scheduledSinceReady>>
    /\ UNCHANGED <<procUp, hostVars, phoneVars, campaignVars, queueVars, logVars>>

\* A status answer that hands out the stored payload as it is.
StatusQrCode_stored == qrCode

\* GET /api/whatsapp-status: the two fields of its answer.
StatusIsConnected == isClientReady
StatusQrCode == IF ~isClientReady THEN qrCode ELSE NoQr

(* ------------------------- the campaign log --------------------------- *)

\* An entry of failed (messageLogger.js 33-38) as JSON.stringify writes it:
\* the key timestamp is left out when the error was pushed without one.
FailedEntry(e) ==
    IF e.hasTimestamp
    THEN [name |-> e.contact.name, phoneNumber |-> e.contact.phoneNumber,
          error |-> e.error, timestamp |-> e.timestamp]
    ELSE [name |-> e.contact.name, phoneNumber |-> e.contact.phoneNumber,
          error |-> e.error]

\* The logEntry logCampaign builds from the response (messageLogger.js 21-40).
\* `campaign` identifies the request the entry stems from; timestamp is the
\* response's timestamp (server.js 1058).
LogEntryOf(c, req, res, errs, timestamp) ==
    [campaign |-> c,
     campaignName |-> req.campaignName,
     timestamp |-> timestamp,
     messageTemplate |-> req.messageTemplate,
     successful |-> [k \in 1..Len(res) |->
                        [name |-> res[k].contact.name,
                         phoneNumber |-> res[k].contact.phoneNumber,
                         formattedNumber |-> res[k].formattedNumber,
                         actualMessage |-> res[k].personalizedMessage]],
     failed |-> [k \in 1..Len(errs) |-> FailedEntry(errs[k])],
     statistics |-> [total |-> Len(req.contacts), successful |-> Len(res),
                     failed |-> Len(errs)]]

\* A logger that appends every record twice.
logCampaign_twice(calls, logEntry) == Append(Append(calls, logEntry), logEntry)

\* logCampaign: one appendFile call per record handed over (messageLogger.js
\* 18-48). calls are the appendFile calls made so far.
logCampaign(calls, logEntry) == Append(calls, logEntry)

\* The text "---END_ENTRY---" as characters.
EndEntryText ==
    <<"-", "-", "-", "E", "N", "D", "_", "E", "N", "T", "R", "Y", "-", "-", "-">>

\* String.prototype.includes.
Includes(str, sub) ==
    \E i \in 1..(Len(str) - Len(sub) + 1) : SubSeq(str, i, i + Len(sub) - 1) = sub

\* Some string of the entry contains the text "---END_ENTRY---".
HasEndEntryText(logEntry) ==
    \/ Includes(logEntry.campaignName, EndEntryText)
    \/ Includes(logEntry.messageTemplate, EndEntryText)
    \/ \E k \in 1..Len(logEntry.successful) :
           Includes(logEntry.successful[k].name, EndEntryText)
    \/ \E k \in 1..Len(logEntry.failed) :
           Includes(logEntry.failed[k].name, EndEntryText)

\* The file's text is a sequence of pieces: a line feed, an occurrence of
\* "---END_ENTRY---", or a part of the JSON text of an entry. The JSON text of
\* an entry is cut in two, and where one of its strings contains
\* "---END_ENTRY---" that occurrence lies between the two parts.
Newline == [text |-> "\n"]
EndEntry == [text |-> "---END_ENTRY---"]
JsonPart(logEntry, part) == [text |-> "json", of |-> logEntry, part |-> part]

\* JSON.stringify(logEntry): one line, strings are written as they are.
stringify(logEntry) ==
    IF HasEndEntryText(logEntry)
    THEN <<JsonPart(logEntry, 1), EndEntry, JsonPart(logEntry, 2)>>
    ELSE <<JsonPart(logEntry, 1), JsonPart(logEntry, 2)>>

\* JSON.parse(text): the entry whose JSON text it is, or a SyntaxError.
parse(text) ==
    IF /\ text # <<>>
       /\ text[1].text = "json"
       /\ text = stringify(text[1].of)
    THEN [ok |-> TRUE, value |-> text[1].of]
    ELSE [ok |-> FALSE, value |-> "SyntaxError"]

\* messageLogger.js 42.
logLine(logEntry) == stringify(logEntry) \o <<Newline, EndEntry, Newline>>

\* fs.promises.appendFile of one pending entry completes.
AppendDone(i) ==
    /\ procUp
    /\ i \in 1..Len(pendingAppends)
    /\ logFile' = Append(logFile, pendingAppends[i])
    /\ logText' = logText \o logLine(pendingAppends[i])
    /\ pendingAppends' = SubSeq(pendingAppends, 1, i - 1)
                            \o SubSeq(pendingAppends, i + 1, Len(pendingAppends))
    /\ UNCHANGED appendCalls
    /\ UNCHANGED <<sessionVars, procUp, hostVars, phoneVars, campaignVars, queueVars>>

\* A logger whose failed append turns the campaign's response into an error.
AppendFailed_fatal(i) ==
    /\ procUp
    /\ i \in 1..Len(pendingAppends)
    /\ pendingAppends' = SubSeq(pendingAppends, 1, i - 1)
                            \o SubSeq(pendingAppends, i + 1, Len(pendingAppends))
    /\ response' = [response EXCEPT ![pendingAppends[i].campaign] =
                        [NoResponse EXCEPT !.status = 500]]
    /\ UNCHANGED <<logFile, logText, appendCalls>>
    /\ UNCHANGED <<pc, request, idx, results, errors>>
    /\ UNCHANGED <<sessionVars, procUp, hostVars, phoneVars, queueVars>>

\* appendFile rejects: the catch of messageLogger.js 44-46 only logs it.
AppendFailed(i) ==
    /\ procUp
    /\ i \in 1..Len(pendingAppends)
    /\ pendingAppends' = SubSeq(pendingAppends, 1, i - 1)
                            \o SubSeq(pendingAppends, i + 1, Len(pendingAppends))
    /\ UNCHANGED <<logFile, logText, appendCalls>>
    /\ UNCHANGED <<sessionVars, procUp, hostVars, phoneVars, campaignVars, queueVars>>

\* The process ends while appendFile is writing: the first n pieces of the
\* line are in the file.
AppendCrashed(i, n) ==
    /\ procUp
    /\ i \in 1..Len(pendingAppends)
    /\ n \in 1..(Len(logLine(pendingAppends[i])) - 1)
    /\ logText' = logText \o SubSeq(logLine(pendingAppends[i]), 1, n)
    /\ procUp' = FALSE
    /\ UNCHANGED <<pendingAppends, logFile, appendCalls>>
    /\ UNCHANGED <<sessionVars, hostVars, phoneVars, campaignVars, queueVars>>

(* ------------------------ readers of the log ------------------------- *)

\* text.split(sep): the pieces between the occurrences of sep; cur is the
\* piece being collected. readline cuts the file into lines the same way.
RECURSIVE SplitAt(_, _, _, _)
SplitAt(text, sep, k, cur) ==
    IF k > Len(text) THEN <<cur>>
    ELSE IF text[k] = sep THEN <<cur>> \o SplitAt(text, sep, k + 1, <<>>)
    ELSE SplitAt(text, sep, k + 1, Append(cur, text[k]))

Lines(text) == SplitAt(text, Newline, 1, <<>>)

\* The loop shared by the readers of messageLogger.js (65-80, 101-113): lines
\* are joined until a line equal to "---END_ENTRY---", then the joined text is
\* parsed. ok is false when JSON.parse threw; campaigns are the entries parsed
\* before.
RECURSIVE ReadEntries(_, _, _, _)
RECURSIVE Parsed(_, _, _, _)
ReadEntries(lines, k, entry, campaigns) ==
    IF k > Len(lines) THEN [ok |-> TRUE, campaigns |-> campaigns]
    ELSE IF lines[k] = <<EndEntry>>
    THEN IF entry # <<>>
         THEN Parsed(lines, k, campaigns, parse(entry))
         ELSE ReadEntries(lines, k + 1, <<>>, campaigns)
    ELSE ReadEntries(lines, k + 1, entry \o lines[k], campaigns)

Parsed(lines, k, campaigns, p) ==
    IF p.ok
    THEN ReadEntries(lines, k + 1, <<>>, Append(campaigns, p.value))
    ELSE [ok |-> FALSE, campaigns |-> campaigns]

\* Array.prototype.reverse.
Reverse(seq) == [k \in 1..Len(seq) |-> seq[Len(seq) + 1 - k]]

\* The summary getCampaigns pushes for an entry (messageLogger.js 69-74).
Summary(campaign) ==
    [campaignName |-> campaign.campaignName,
     timestamp |-> campaign.timestamp,
     statistics |-> campaign.statistics,
     messageTemplate |-> campaign.messageTemplate]

\* messageLogger.js 82-88, with r the outcome of the loop.
CampaignsResult(r) ==
    IF r.ok
    THEN [campaigns |-> Reverse([k \in 1..Len(r.campaigns) |-> Summary(r.campaigns[k])]),
          total |-> Len(r.campaigns)]
    ELSE [campaigns |-> <<>>, total |-> 0]

\* The default of getCampaigns' parameter limit (messageLogger.js 54).
DefaultLimit == 10000

\* getCampaigns(page, limit) on a file with the given text: neither parameter
\* is read in the body (messageLogger.js 54-90).
getCampaigns(text, page, limit) ==
    CampaignsResult(ReadEntries(Lines(text), 1, <<>>, <<>>))

\* messageLogger.js 105-117: the first entry parsed whose timestamp is the
\* one asked for; an error when JSON.parse threw before or none matches.
DetailsResult(hits) ==
    IF hits # <<>>
    THEN [ok |-> TRUE, value |-> hits[1]]
    ELSE [ok |-> FALSE, value |-> "Error"]

\* getCampaignDetails on a file with the given text.
getCampaignDetails(text, timestamp) ==
    DetailsResult(SelectSeq(ReadEntries(Lines(text), 1, <<>>, <<>>).campaigns,
                            LAMBDA campaign : campaign.timestamp = timestamp))

\* String.prototype.trim on a piece of the file: line feeds are the only
\* white space in it.
RECURSIVE TrimPiece(_)
TrimPiece(piece) ==
    IF piece = <<>> THEN piece
    ELSE IF Head(piece) = Newline THEN TrimPiece(Tail(piece))
    ELSE IF piece[Len(piece)] = Newline
    THEN TrimPiece(SubSeq(piece, 1, Len(piece) - 1))
    ELSE piece

\* GET /api/messages (server.js 679-702): the file is split at every
\* occurrence of "---END_ENTRY---", blank pieces are dropped, each remaining
\* piece is parsed; a SyntaxError is answered 500.
MessagesResult(parsed) ==
    IF \A k \in 1..Len(parsed) : parsed[k].ok
    THEN [status |-> 200,
          messages |-> Reverse([k \in 1..Len(parsed) |-> parsed[k].value])]
    ELSE [status |-> 500, messages |-> <<>>]

ParsePieces(pieces) == [k \in 1..Len(pieces) |-> parse(TrimPiece(pieces[k]))]

getMessages(text) ==
    MessagesResult(
        ParsePieces(SelectSeq(SplitAt(text, EndEntry, 1, <<>>),
                              LAMBDA piece : TrimPiece(piece) # <<>>)))

\* String.prototype.toLowerCase on the letters A-Z.
UpperCase == <<"A", "B", "C", "D", "E", "F", "G", "H", "I", "J", "K", "L", "M",
               "N", "O", "P", "Q", "R", "S", "T", "U", "V", "W", "X", "Y", "Z">>
LowerCase == <<"a", "b", "c", "d", "e", "f", "g", "h", "i", "j", "k", "l", "m",
               "n", "o", "p", "q", "r", "s", "t", "u", "v", "w", "x", "y", "z">>
toLowerCase(str) ==
    [k \in 1..Len(str) |->
        IF \E i \in 1..Len(UpperCase) : UpperCase[i] = str[k]
        THEN LowerCase[CHOOSE i \in 1..Len(UpperCase) : UpperCase[i] = str[k]]
        ELSE str[k]]

\* The callback of .some() for one recipient m (messageLogger.js 142-146,
\* 148-152): name, then phone number, then m.message.toLowerCase(), which
\* throws a TypeError when m has no message property.
RecipientOutcome(m, searchText) ==
    IF \/ Includes(toLowerCase(m.name), searchText)
       \/ Includes(m.phoneNumber, searchText)
    THEN "match"
    ELSE IF "message" \notin DOMAIN m THEN "TypeError"
    ELSE IF Includes(toLowerCase(m.message), searchText) THEN "match"
    ELSE "no match"

\* Array.prototype.some over the recipients from index k on: it stops at the
\* first match or throw.
RECURSIVE SomeRecipient(_, _, _)
RECURSIVE AfterRecipient(_, _, _, _)
SomeRecipient(recipients, k, searchText) ==
    IF k > Len(recipients) THEN "no match"
    ELSE AfterRecipient(recipients, k, searchText,
                        RecipientOutcome(recipients[k], searchText))

AfterRecipient(recipients, k, searchText, outcome) ==
    IF outcome = "no match" THEN SomeRecipient(recipients, k + 1, searchText)
    ELSE outcome

\* The condition of messageLogger.js 137-154 for one campaign.
FirstOf(outcome, rest) == IF outcome = "no match" THEN rest ELSE outcome

CampaignOutcome(campaign, searchText) ==
    IF \/ Includes(toLowerCase(campaign.campaignName), searchText)
       \/ Includes(toLowerCase(campaign.messageTemplate), searchText)
    THEN "match"
    ELSE FirstOf(SomeRecipient(campaign.successful, 1, searchText),
                 SomeRecipient(campaign.failed, 1, searchText))

\* messageLogger.js 132-166, with r the outcome of the reader loop: a throw
\* of JSON.parse or of the condition is caught and [] returned.
SearchResult(r, searchText) ==
    IF /\ r.ok
       /\ \A k \in 1..Len(r.campaigns) :
              CampaignOutcome(r.campaigns[k], searchText) # "TypeError"
    THEN SelectSeq(r.campaigns,
                   LAMBDA campaign : CampaignOutcome(campaign, searchText) = "match")
    ELSE <<>>

\* searchCampaigns on a file with the given text.
searchCampaigns(text, query) ==
    SearchResult(ReadEntries(Lines(text), 1, <<>>, <<>>), toLowerCase(query))

(* ------------------------ clock and restarts ------------------------- *)

\* A millisecond passes.
Tick ==
    /\ now < MaxClock
    /\ now' = now + 1
    /\ UNCHANGED <<restarts, phoneVars>>
    /\ UNCHANGED <<sessionVars, procUp, campaignVars, queueVars, logVars>>

\* The server is started again after its process has ended: the module is
\* loaded anew (server.js 458-466, 600); the file is what was written.
Restart ==
    /\ ~procUp
    /\ restarts < MaxRestarts
    /\ restarts' = restarts + 1
    /\ procUp' = TRUE
    /\ isClientReady' = FALSE
    /\ qrCode' = NoQr
    /\ reconnectAttempts' = 0
    /\ timers' = <<>>
    /\ transport' = "starting"
    /\ qrOutdated' = FALSE
    /\ scheduledSinceReady' = 0
    /\ pc' = [c \in Campaigns |-> "idle"]
    /\ request' = [c \in Campaigns |-> NoRequest]
    /\ idx' = [c \in Campaigns |-> 0]
    /\ results' = [c \in Campaigns |-> <<>>]
    /\ errors' = [c \in Campaigns |-> <<>>]
    /\ response' = [c \in Campaigns |-> NoResponse]
    /\ queue' = <<>>
    /\ tst' = [t \in Tasks |-> "none"]
    /\ cbCalls' = [t \in Tasks |-> 0]
    /\ sendAttempts' = [t \in Tasks |-> 0]
    /\ pushOrder' = <<>>
    /\ startOrder' = <<>>
    /\ pendingAppends' = <<>>
    /\ appendCalls' = <<>>
    /\ UNCHANGED <<logFile, logText, now, phoneVars>>

(* ---------------------- POST /api/send-messages ----------------------- *)

\* A handler that skips the connection check.
SessionUsable_unchecked == TRUE

\* server.js 893: the connection check of the handler.
SessionUsable == isClientReady

\* An entry of the handler's errors list.
ErrorEntry(contact, message, hasTimestamp) ==
    [contact |-> contact, error |-> message, hasTimestamp |-> hasTimestamp]

\* The contact loop up to its next await (server.js 962-987): contacts that
\* fail validation or formatting are recorded and skipped. Reading
\* contact.name of a null entry throws (965); the catch of the iteration
\* reads contact.phoneNumber (1037) and throws again, out of the loop.
RECURSIVE SkipInvalid(_, _, _)
RECURSIVE SkipUnformattable(_, _, _, _)

\* A loop that skips a contact whose number cannot be formatted without
\* recording it.
SkipUnformattable_unrecorded(contacts, i, errs, f) ==
    IF ~f.ok
    THEN SkipInvalid(contacts, i + 1, errs)
    ELSE [i |-> i, errors |-> errs, threw |-> FALSE]

SkipInvalid(contacts, i, errs) ==
    IF i > Len(contacts) THEN [i |-> i, errors |-> errs, threw |-> FALSE]
    ELSE IF contacts[i] = NullEntry
    THEN [i |-> i, errors |-> errs, threw |-> TRUE]
    ELSE IF IsBlank(contacts[i].name) \/ IsBlank(contacts[i].phoneNumber)
    THEN SkipInvalid(contacts, i + 1,
             Append(errs, ErrorEntry(contacts[i],
                                     "Missing or invalid name/phone number", FALSE)))
    ELSE SkipUnformattable(contacts, i, errs,
                           formatPhoneNumber(contacts[i].phoneNumber))

\* server.js 978-987, with f the outcome of formatPhoneNumber for contact i.
SkipUnformattable(contacts, i, errs, f) ==
    IF ~f.ok
    THEN SkipInvalid(contacts, i + 1,
             Append(errs, ErrorEntry(contacts[i],
                                     "Invalid phone number: " \o f.error, FALSE)))
    ELSE [i |-> i, errors |-> errs, threw |-> FALSE]

\* messageTemplate.replace(/{name}/g, contact.name.trim()) (server.js
\* 990-993, 1024-1027).
personalizedMessage(messageTemplate, contact) ==
    ReplaceAll(messageTemplate, <<"{", "n", "a", "m", "e", "}">>, Trim(contact.name))

\* The task the handler pushes for contact i (server.js 994, 1005-1009).
TaskOf(c, i, formattedNumber, message) ==
    [id |-> <<c, i>>, chatId |-> formattedNumber \o <<"@", "c", ".", "u", "s">>,
     message |-> message]

\* A response whose details always hold both lists.
ResponseDetails_both(res, errs) == [results |-> res, errors |-> errs]

\* details of the response as res.json writes it (server.js 1067-1070): the
\* key errors has the value undefined when no contact failed, and
\* JSON.stringify leaves such a key out.
ResponseDetails(res, errs) ==
    IF Len(errs) > 0 THEN [results |-> res, errors |-> errs] ELSE [results |-> res]

\* The handler stops at r.i: it pushes the task of that contact and awaits it
\* (server.js 1003-1018), or, past the last contact, responds and hands the
\* response to logCampaign (1053-1075), or, when the loop threw, answers 500
\* from the outer catch (1076-1090). tst0 is the task table the step starts
\* from.
RunFrom(c, req, res, r, tst0) ==
    /\ request' = [request EXCEPT ![c] = req]
    /\ results' = [results EXCEPT ![c] = res]
    /\ errors' = [errors EXCEPT ![c] = r.errors]
    /\ idx' = [idx EXCEPT ![c] = r.i]
    /\ IF r.threw
       THEN /\ pc' = [pc EXCEPT ![c] = "done"]
            /\ response' = [response EXCEPT ![c] = [NoResponse EXCEPT !.status = 500]]
            /\ tst' = tst0
            /\ UNCHANGED <<queue, pushOrder, pendingAppends, appendCalls>>
       ELSE IF r.i <= Len(req.contacts)
       THEN /\ pc' = [pc EXCEPT ![c] = "await"]
            /\ queue' = Append(queue,
                   TaskOf(c, r.i, formatPhoneNumber(req.contacts[r.i].phoneNumber).value,
                          personalizedMessage(req.messageTemplate, req.contacts[r.i])))
            /\ tst' = [tst0 EXCEPT ![<<c, r.i>>] = "queued"]
            /\ pushOrder' = Append(pushOrder, <<c, r.i>>)
            /\ UNCHANGED <<response, pendingAppends, appendCalls>>
       ELSE /\ pc' = [pc EXCEPT ![c] = "done"]
            /\ response' = [response EXCEPT ![c] =
                   [status |-> 200,
                    statistics |-> [total |-> Len(req.contacts),
                                    successful |-> Len(res),
                                    failed |-> Len(r.errors)],
                    details |-> ResponseDetails(res, r.errors)]]
            /\ pendingAppends' =
                   logCampaign(pendingAppends, LogEntryOf(c, req, res, r.errors, now))
            /\ appendCalls' =
                   logCampaign(appendCalls, LogEntryOf(c, req, res, r.errors, now))
            /\ tst' = tst0
            /\ UNCHANGED <<queue, pushOrder>>

\* The handler runs from contact `from` to its next await or to its end.
RunLoop(c, req, from, res, errs, tst0) ==
    RunFrom(c, req, res, SkipInvalid(req.contacts, from, errs), tst0)

\* An early return of the handler with an error status.
Reject(c, status) ==
    /\ pc' = [pc EXCEPT ![c] = "done"]
    /\ response' = [response EXCEPT ![c] = [NoResponse EXCEPT !.status = status]]
    /\ UNCHANGED <<request, idx, results, errors>>
    /\ UNCHANGED <<queue, tst, pushOrder, pendingAppends, appendCalls>>

\* A request arrives and the handler runs to its first await or to its end.
SendMessages(c, req) ==
    /\ procUp
    /\ pc[c] = "idle"
    /\ IF ~SessionUsable THEN Reject(c, 503)
       ELSE IF \/ IsBlank(req.campaignName)
               \/ IsBlank(req.messageTemplate)
               \/ ~req.contactsIsArray
               \/ Len(req.contacts) = 0
       THEN Reject(c, 400)
       ELSE RunLoop(c, req, 1, <<>>, <<>>, tst)
    /\ UNCHANGED <<cbCalls, sendAttempts, startOrder, logFile, logText>>
    /\ UNCHANGED <<sessionVars, procUp, hostVars, phoneVars>>

(* ------------------------- the delivery queue ------------------------- *)

\* A queue whose slot is free as soon as the worker has called back.
Running_busy == {t \in Tasks : tst[t] \in {"getChat", "send", "thrown"}}

\* Tasks that hold a worker slot: being processed, or in afterProcessDelay.
Running == {t \in Tasks : tst[t] \in {"getChat", "send", "delay", "thrown"}}

\* Tasks with a transport call (getChatById, sendMessage) outstanding.
InFlight == {t \in Tasks : tst[t] \in {"getChat", "send"}}

\* A last-in first-out store.
NextIndex_last(q) == Len(q)

\* The store is first-in first-out (no filo option is given).
NextIndex(q) == 1

\* The queue starts its next task: the worker logs and calls getChatById
\* (server.js 472-476).
StartTask ==
    /\ procUp
    /\ queue # <<>>
    /\ Cardinality(Running) < concurrent
    /\ LET k == NextIndex(queue)
           t == queue[k].id
       IN  /\ queue' = SubSeq(queue, 1, k - 1) \o SubSeq(queue, k + 1, Len(queue))
           /\ tst' = [tst EXCEPT ![t] = "getChat"]
           /\ startOrder' = Append(startOrder, t)
    /\ UNCHANGED <<cbCalls, sendAttempts, pushOrder>>
    /\ UNCHANGED <<sessionVars, procUp, hostVars, phoneVars, campaignVars, logVars>>

\* getChatById settles (a rejection becomes null, 476-479) and the worker
\* calls sendMessage (482-491).
GetChatSettled(t) ==
    /\ procUp
    /\ tst[t] = "getChat"
    /\ tst' = [tst EXCEPT ![t] = "send"]
    /\ sendAttempts' = [sendAttempts EXCEPT ![t] = @ + 1]
    /\ UNCHANGED <<queue, cbCalls, pushOrder, startOrder>>
    /\ UNCHANGED <<sessionVars, procUp, hostVars, phoneVars, campaignVars, logVars>>

\* An entry of the handler's results list (server.js 1020-1029).
ResultEntry(contact, messageTemplate) ==
    [contact |-> contact,
     formattedNumber |-> formatPhoneNumber(contact.phoneNumber).value,
     personalizedMessage |-> personalizedMessage(messageTemplate, contact)]

\* sendMessage returns a message: cb(null, result) (498), the push callback
\* resolves the handler's promise and the handler goes on (1020-1031);
\* the queue waits afterProcessDelay before it frees the slot.
SendSucceeded(t) ==
    /\ procUp
    /\ tst[t] = "send"
    /\ transport = "ready"
    /\ cbCalls' = [cbCalls EXCEPT ![t] = @ + 1]
    /\ RunLoop(t[1], request[t[1]], t[2] + 1,
               Append(results[t[1]], ResultEntry(request[t[1]].contacts[t[2]],
                                                   request[t[1]].messageTemplate)),
               errors[t[1]],
               [tst EXCEPT ![t] = IF afterProcessDelay > 0 THEN "delay" ELSE "done"])
    /\ UNCHANGED <<sendAttempts, startOrder, logFile, logText>>
    /\ UNCHANGED <<sessionVars, procUp, hostVars, phoneVars>>

\* sendMessage rejects or returns nothing: control enters the catch block
\* (499-502), whose first statement reads chatId, a const of the try block
\* that is not in scope there. The ReferenceError rejects the worker's
\* promise before cb(error) is reached; better-queue never hears of the task
\* again. The unhandled rejection ends the process or is only reported,
\* depending on the node version.
SendFailed(t) ==
    /\ procUp
    /\ tst[t] = "send"
    /\ tst' = [tst EXCEPT ![t] = "thrown"]
    /\ procUp' \in BOOLEAN
    /\ UNCHANGED <<queue, cbCalls, sendAttempts, pushOrder, startOrder>>
    /\ UNCHANGED <<sessionVars, hostVars, phoneVars, campaignVars, logVars>>

\* afterProcessDelay has elapsed: the slot is free again.
DelayElapsed(t) ==
    /\ procUp
    /\ tst[t] = "delay"
    /\ tst' = [tst EXCEPT ![t] = "done"]
    /\ UNCHANGED <<queue, cbCalls, sendAttempts, pushOrder, startOrder>>
    /\ UNCHANGED <<sessionVars, procUp, hostVars, phoneVars, campaignVars, logVars>>

(* ----------------------- validatePhoneNumber ------------------------- *)

\* validatePhoneNumber is called with phoneNumber.
ValidatePhone ==
    /\ validation = NotValidated
    /\ validation' = validatePhoneNumber(phoneNumber)
    /\ UNCHANGED <<phoneNumber, revalidation>>
    /\ UNCHANGED <<sessionVars, procUp, hostVars, campaignVars, queueVars, logVars>>

\* validatePhoneNumber is called with the formatted number it returned.
RevalidatePhone ==
    /\ validation.isValid
    /\ revalidation = NotValidated
    /\ revalidation' = validatePhoneNumber(validation.formatted)
    /\ UNCHANGED <<phoneNumber, validation>>
    /\ UNCHANGED <<sessionVars, procUp, hostVars, campaignVars, queueVars, logVars>>

(* --------------------------- specification ---------------------------- *)

Next ==
    \/ \E qr \in QrPayloads : OnQr(qr)
    \/ OnAuthenticated
    \/ OnReady
    \/ OnAuthFailure
    \/ OnDisconnected
    \/ \E i \in 1..Len(timers) : ReconnectTimer(i)
    \/ \E c \in Campaigns, req \in Requests : SendMessages(c, req)
    \/ StartTask
    \/ \E t \in Tasks : GetChatSettled(t)
    \/ \E t \in Tasks : SendSucceeded(t)
    \/ \E t \in Tasks : SendFailed(t)
    \/ \E t \in Tasks : DelayElapsed(t)
    \/ \E i \in 1..Len(pendingAppends) : AppendDone(i)
    \/ \E i \in 1..Len(pendingAppends) : AppendFailed(i)
    \/ \E c \in Campaigns, req \in LogRequests : SendMessages(c, req)
    \/ \E c \in Campaigns, req \in TemplateRequests : SendMessages(c, req)
    \/ \E c \in Campaigns, req \in QueueRequests : SendMessages(c, req)
    \/ \E i \in 1..Len(pendingAppends) :
           \E n \in 1..Len(logLine(pendingAppends[i])) : AppendCrashed(i, n)
    \/ Tick
    \/ Restart
    \/ ValidatePhone
    \/ RevalidatePhone

Spec == Init /\ [][Next]_vars

\* formatPhoneNumber on its own: validatePhoneNumber is applied to a phone
\* number and then to the number it returned.
PhoneInit ==
    /\ ServerInit
    /\ phoneNumber \in PhoneInputs
    /\ validation = NotValidated
    /\ revalidation = NotValidated

PhoneNext ==
    \/ ValidatePhone
    \/ RevalidatePhone

PhoneSpec == PhoneInit /\ [][PhoneNext]_vars

\* Personalized messages: campaigns with one contact run to their record
\* while the session is ready.
TemplateNext ==
    \/ OnAuthenticated
    \/ OnReady
    \/ \E c \in Campaigns, req \in TemplateRequests : SendMessages(c, req)
    \/ StartTask
    \/ \E t \in Tasks : GetChatSettled(t)
    \/ \E t \in Tasks : SendSucceeded(t)
    \/ \E t \in Tasks : DelayElapsed(t)
    \/ \E i \in 1..Len(pendingAppends) : AppendDone(i)

TemplateSpec == Init /\ [][TemplateNext]_vars

\* The queue and its worker under campaigns whose contacts are all valid,
\* while the session is ready.
QueueNext ==
    \/ OnAuthenticated
    \/ OnReady
    \/ \E c \in Campaigns, req \in QueueRequests : SendMessages(c, req)
    \/ StartTask
    \/ \E t \in Tasks : GetChatSettled(t)
    \/ \E t \in Tasks : SendSucceeded(t)
    \/ \E t \in Tasks : SendFailed(t)
    \/ \E t \in Tasks : DelayElapsed(t)
    \/ \E i \in 1..Len(pendingAppends) : AppendDone(i)

QueueSpec == Init /\ [][QueueNext]_vars

\* The session alone: the transport's events and the reconnection timers.
SessionNext ==
    \/ \E qr \in QrPayloads : OnQr(qr)
    \/ OnAuthenticated
    \/ OnReady
    \/ OnAuthFailure
    \/ OnDisconnected
    \/ \E i \in 1..Len(timers) : ReconnectTimer(i)

SessionSpec == Init /\ [][SessionNext]_vars

\* The session when the transport may repeat the disconnected event.
EventNext ==
    \/ SessionNext
    \/ OnDisconnectedAgain

EventSpec == Init /\ [][EventNext]_vars

\* The session with the program's own scheduling: a pending setTimeout fires.
\* Nothing obliges the transport to emit an event.
FairSessionSpec ==
    Init /\ [][SessionNext]_vars
         /\ WF_vars(\E i \in 1..Len(timers) : ReconnectTimer(i))

\* Campaigns, queue and log over one life of the session: it authenticates,
\* becomes ready and drops, so requests meet isClientReady false, true and
\* false again. The handler and the worker read nothing else of the session.
DeliveryNext ==
    \/ OnAuthenticated
    \/ OnReady
    \/ OnDisconnected
    \/ \E c \in Campaigns, req \in Requests : SendMessages(c, req)
    \/ StartTask
    \/ \E t \in Tasks : GetChatSettled(t)
    \/ \E t \in Tasks : SendSucceeded(t)
    \/ \E t \in Tasks : SendFailed(t)
    \/ \E t \in Tasks : DelayElapsed(t)
    \/ \E i \in 1..Len(pendingAppends) : AppendDone(i)
    \/ \E i \in 1..Len(pendingAppends) : AppendFailed(i)

DeliverySpec == Init /\ [][DeliveryNext]_vars

\* The log over the lives of the server: campaigns with one contact complete
\* while the clock advances or not, appends complete or are cut short by the
\* end of the process, and the server is started again.
LogNext ==
    \/ OnAuthenticated
    \/ OnReady
    \/ \E c \in Campaigns, req \in LogRequests : SendMessages(c, req)
    \/ StartTask
    \/ \E t \in Tasks : GetChatSettled(t)
    \/ \E t \in Tasks : SendSucceeded(t)
    \/ \E t \in Tasks : DelayElapsed(t)
    \/ \E i \in 1..Len(pendingAppends) : AppendDone(i)
    \/ \E i \in 1..Len(pendingAppends) :
           \E n \in 1..Len(logLine(pendingAppends[i])) : AppendCrashed(i, n)
    \/ Tick
    \/ Restart

LogSpec == Init /\ [][LogNext]_vars

(* ------------------------------- claims ------------------------------- *)

\* C1: at every instant at most one transport call of the queue worker
\* (getChatById or sendMessage) is outstanding, however the campaigns that
\* push into the one queue interleave.
C1_OneTransportCallOutstanding == Cardinality(InFlight) <= 1

\* A transport call is outstanding while the other campaign's task waits.
C1_Witness ==
    \E t \in Tasks : tst[t] = "send" /\ queue # <<>> /\ queue[1].id[1] # t[1]

\* C2: every pushed task has its callback invoked exactly once, with a result
\* or an error, also when the transport call throws or returns no message:
\* once the worker's run for a task is over, the callback has been invoked
\* once.
C2_CallbackInvokedOnce ==
    \A t \in Tasks :
        /\ cbCalls[t] <= 1
        /\ tst[t] \in {"delay", "done", "thrown"} => cbCalls[t] = 1

\* C3: tasks start their transport call in the order they were pushed, across
\* campaigns, and the sends of one campaign happen in contact-list order.
C3_StartedInPushOrder ==
    /\ Len(startOrder) <= Len(pushOrder)
    /\ startOrder = SubSeq(pushOrder, 1, Len(startOrder))
    /\ \A a, b \in 1..Len(startOrder) :
           (a < b /\ startOrder[a][1] = startOrder[b][1])
               => startOrder[a][2] < startOrder[b][2]

\* Tasks of both campaigns have started while a further task waits.
C3_Witness ==
    /\ Len(startOrder) >= 2
    /\ startOrder[1][1] # startOrder[2][1]
    /\ queue # <<>>

\* C4: a task whose transport call fails is retried, at most 1 + retries
\* sendMessage calls are made for it, and after the last failed one it is
\* settled as a failure recorded in the campaign's failed list.
C4_FailedSendRetriedThenRecorded ==
    \A t \in Tasks :
        /\ sendAttempts[t] <= 1 + retries
        /\ tst[t] = "thrown" =>
               \/ /\ sendAttempts[t] < 1 + retries
                  /\ \E k \in 1..Len(queue) : queue[k].id = t
               \/ /\ cbCalls[t] = 1
                  /\ \E k \in 1..Len(errors[t[1]]) :
                         /\ errors[t[1]][k].contact = request[t[1]].contacts[t[2]]
                         /\ errors[t[1]][k].hasTimestamp

C6_AcceptedOnlyWhenReady ==
    [][\A c \in Campaigns :
          (pc[c] = "idle" /\ pc'[c] # "idle" /\ response'[c].status # 503)
              => transport = "ready"]_vars

\* C7: no transport send is invoked while the session is not Ready: once the
\* transport has dropped, no sendMessage call is made until the session is
\* ready again. isClientReady is false from the drop on and true in every
\* Ready state.
C7_NoSendUnlessReady ==
    [][\A t \in Tasks :
          sendAttempts'[t] > sendAttempts[t] => isClientReady]_vars

\* C8: the status endpoint returns no pairing payload that was issued before
\* an authentication of the session.
C8_NoOutdatedPairingPayload == StatusQrCode # NoQr => ~qrOutdated

\* C9: a failure below the cap schedules one reconnection; at most
\* MAX_RECONNECT_ATTEMPTS are scheduled without a ready event between them;
\* at the cap a failure schedules nothing, and with nothing pending the
\* session stays not ready.
C9_ReconnectionsCapped ==
    /\ [](scheduledSinceReady <= MAX_RECONNECT_ATTEMPTS)
    /\ [][(transport # "dead" /\ transport' = "dead") =>
             IF scheduledSinceReady < MAX_RECONNECT_ATTEMPTS
             THEN /\ Len(timers') = Len(timers) + 1
                  /\ scheduledSinceReady' = scheduledSinceReady + 1
             ELSE UNCHANGED <<timers, scheduledSinceReady>>]_vars
    /\ []((scheduledSinceReady = MAX_RECONNECT_ATTEMPTS /\ timers = <<>>
              /\ transport = "dead") => ~isClientReady)
    /\ [][(scheduledSinceReady = MAX_RECONNECT_ATTEMPTS /\ timers = <<>>
              /\ transport = "dead") => UNCHANGED sessionVars]_vars

\* The cap is reached, the last reconnection has failed, nothing is pending.
C9_Witness ==
    /\ scheduledSinceReady = MAX_RECONNECT_ATTEMPTS
    /\ timers = <<>>
    /\ transport = "dead"

\* C10: the reconnection scheduled as attempt k since the last ready event
\* waits ReconnectBaseDelay * 2^k, whichever event scheduled it.
C10_ExponentialBackoff ==
    \A i \in 1..Len(timers) :
        timers[i].delay = ReconnectBaseDelay * (2 ^ timers[i].attempt)

\* C11: an initialization that is followed by no ready and no failure event
\* of the transport is eventually treated as failed, so that the reconnection
\* policy applies: the session does not stay in an initializing state for ever.
C11_InitializationTimesOut ==
    (transport \in {"starting", "pairing", "authed"})
        ~> (transport \in {"ready", "dead"})

\* The contact fails the handler's validation or its number is rejected by
\* formatPhoneNumber.
FailsBeforeSend(contact) ==
    \/ IsBlank(contact.name)
    \/ IsBlank(contact.phoneNumber)
    \/ ~formatPhoneNumber(contact.phoneNumber).ok

\* C12: in every campaign that returns a record each input contact is in
\* exactly one of the successful and failed lists: total is the number of
\* input contacts, successful + failed = total, the failed list holds, in
\* input order, exactly the contacts that failed validation, normalization
\* or sending, each with a reason, and the successful list holds the others.
C12_EveryContactAccounted ==
    \A c \in Campaigns :
        response[c].status = 200 =>
            LET contacts == request[c].contacts
                st == response[c].statistics
                Sent(x) == ~FailsBeforeSend(x)
            IN  /\ st.total = Len(contacts)
                /\ st.successful = Len(results[c])
                /\ st.failed = Len(errors[c])
                /\ st.successful + st.failed = st.total
                /\ [k \in 1..Len(results[c]) |-> results[c][k].contact]
                       = SelectSeq(contacts, Sent)
                /\ [k \in 1..Len(errors[c]) |-> errors[c][k].contact]
                       = SelectSeq(contacts, FailsBeforeSend)
                /\ \A k \in 1..Len(errors[c]) : errors[c][k].error # ""

\* A campaign returned a record with a sent contact after a failed one.
C12_Witness ==
    \E c \in Campaigns :
        /\ response[c].status = 200
        /\ Len(results[c]) >= 1
        /\ Len(errors[c]) >= 1
        /\ FailsBeforeSend(request[c].contacts[1])

\* C13: a failure on one contact (a missing or malformed entry, a number that
\* cannot be normalized, a failed transport call) is recorded in the failed
\* list and the campaign goes on: it never ends with an error response in
\* place of a record, and a task whose transport call failed has its contact
\* in the failed list and the handler past that contact.
C13_ContactFailureIsContained ==
    \A c \in Campaigns :
        /\ response[c].status # 500
        /\ \A t \in Tasks :
               (t[1] = c /\ tst[t] = "thrown") =>
                   /\ idx[c] > t[2]
                   /\ \E k \in 1..Len(errors[c]) :
                          errors[c][k].contact = request[c].contacts[t[2]]

\* The appendFile calls made for campaign c.
AppendCallsOf(c) == SelectSeq(appendCalls, LAMBDA e : e.campaign = c)

\* C14: a campaign that runs to completion triggers exactly one log append,
\* issued after every contact has been processed and holding all of them; a
\* campaign that is rejected (400, 503), interrupted or still running triggers
\* none, so no partial result is logged.
C14_OneAppendPerCompletedCampaign ==
    \A c \in Campaigns :
        IF response[c].status = 200
        THEN /\ Len(AppendCallsOf(c)) = 1
             /\ idx[c] > Len(request[c].contacts)
             /\ AppendCallsOf(c)[1].statistics.total = Len(request[c].contacts)
             /\ Len(AppendCallsOf(c)[1].successful) + Len(AppendCallsOf(c)[1].failed)
                    = Len(request[c].contacts)
        ELSE AppendCallsOf(c) = <<>>

\* One campaign has processed all its contacts and triggered its append,
\* the other was rejected or interrupted.
C14_Witness ==
    \E c, d \in Campaigns :
        /\ response[c].status = 200
        /\ Len(request[c].contacts) = MaxContacts
        /\ Len(AppendCallsOf(c)) = 1
        /\ response[d].status \in {400, 500, 503}

\* The entry is in the sequence.
Holds(entries, logEntry) == \E k \in 1..Len(entries) : entries[k] = logEntry

\* C15: every record handed to logCampaign is eventually in the log file,
\* also when an append attempt fails with a storage error: at any time the
\* record is in the file or an append of it, a first or a repeated one, is
\* outstanding.
C15_HandedRecordReachesLog ==
    \A k \in 1..Len(appendCalls) :
        Holds(logFile, appendCalls[k]) \/ Holds(pendingAppends, appendCalls[k])

\* C16: a failure of the log append neither changes nor prevents the HTTP
\* response of the campaign: when an append settles, with or without error,
\* response, results and errors stay as they are, and the handler has
\* responded while its append is still outstanding.
C16_AppendFailureLeavesResponse ==
    /\ [][Len(pendingAppends') < Len(pendingAppends) => UNCHANGED campaignVars]_vars
    /\ [][\A c \in Campaigns :
             (response[c].status # 200 /\ response'[c].status = 200) =>
                 \E k \in 1..Len(pendingAppends') : pendingAppends'[k].campaign = c]_vars
    /\ [](\A c \in Campaigns :
             AppendCallsOf(c) # <<>> =>
                 /\ response[c].status = 200
                 /\ response[c].statistics = AppendCallsOf(c)[1].statistics)

\* The append of a completed campaign has failed: its record is neither
\* outstanding nor in the file, and the response stands.
C16_Witness ==
    \E c \in Campaigns :
        /\ response[c].status = 200
        /\ AppendCallsOf(c) # <<>>
        /\ ~Holds(logFile, AppendCallsOf(c)[1])
        /\ ~Holds(pendingAppends, AppendCallsOf(c)[1])

\* The text of a file that holds exactly the given entries.
RECURSIVE TextOf(_)
TextOf(entries) ==
    IF entries = <<>> THEN <<>>
    ELSE logLine(Head(entries)) \o TextOf(Tail(entries))

\* The file holds the completed appends and nothing else.
LogIntact == logText = TextOf(logFile)

\* What a record says, apart from the request it stems from.
Content(logEntry) == [logEntry EXCEPT !.campaign = "-"]

\* C17: once the append of a record has completed, getCampaignDetails of the
\* record's timestamp returns a record equal to it (campaignName,
\* messageTemplate, successful, failed, statistics), whatever other records
\* the log holds before or after it.
C17_DetailsReturnAppendedRecord ==
    LogIntact =>
        \A k \in 1..Len(logFile) :
            /\ getCampaignDetails(logText, logFile[k].timestamp).ok
            /\ Content(getCampaignDetails(logText, logFile[k].timestamp).value)
                   = Content(logFile[k])

\* C18: no two records in the log have the same timestamp, also when their
\* campaigns complete within the same millisecond.
C18_TimestampsUnique ==
    \A j, k \in 1..Len(logFile) :
        j # k => logFile[j].timestamp # logFile[k].timestamp

\* C19: an incomplete record left in the file by a crash during an append
\* does not harm the other records: every record whose append completed,
\* before or after, is still returned by getCampaigns and found by
\* getCampaignDetails.
C19_TornRecordHarmsNoOther ==
    \A k \in 1..Len(logFile) :
        /\ Holds(getCampaigns(logText, 1, DefaultLimit).campaigns, Summary(logFile[k]))
        /\ getCampaignDetails(logText, logFile[k].timestamp).ok

\* C20: records whose strings contain "---END_ENTRY---" are read back intact
\* by every reader and move no boundary of another record: whatever the
\* records say, getCampaigns and GET /api/messages return all of them, latest
\* first, and getCampaignDetails finds each.
C20_EndEntryTextInRecord ==
    LogIntact =>
        /\ getCampaigns(logText, 1, DefaultLimit).campaigns
               = Reverse([k \in 1..Len(logFile) |-> Summary(logFile[k])])
        /\ \A k \in 1..Len(logFile) :
               getCampaignDetails(logText, logFile[k].timestamp).ok
        /\ getMessages(logText).status = 200
        /\ getMessages(logText).messages = Reverse(logFile)

\* The queries put to searchCampaigns.
Queries == {<<"b", "a", "d">>, <<"A", "M", "I", "T">>, <<"p", "r", "o", "m", "o">>,
            <<"9", "8", "4", "1">>, <<"h", "i", " ", "a", "m", "i", "t">>,
            <<"n", "o", "m", "a", "t", "c", "h">>}

\* The query is, without regard to case, a substring of the string.
Mentions(str, query) == Includes(toLowerCase(str), toLowerCase(query))

\* The query occurs in the campaign name, the message template, or the name,
\* phone number or message of a recipient of either list.
MatchesQuery(logEntry, query) ==
    \/ Mentions(logEntry.campaignName, query)
    \/ Mentions(logEntry.messageTemplate, query)
    \/ \E k \in 1..Len(logEntry.successful) :
           \/ Mentions(logEntry.successful[k].name, query)
           \/ Mentions(logEntry.successful[k].phoneNumber, query)
           \/ Mentions(logEntry.successful[k].actualMessage, query)
    \/ \E k \in 1..Len(logEntry.failed) :
           \/ Mentions(logEntry.failed[k].name, query)
           \/ Mentions(logEntry.failed[k].phoneNumber, query)

\* C21: searchCampaigns(query) returns exactly the logged campaigns in which
\* the query is a case-insensitive substring of the campaign name, the
\* template, or the name, phone number or message of a recipient of the
\* successful or failed list; it is empty only when no campaign matches.
C21_SearchReturnsMatches ==
    LogIntact =>
        \A query \in Queries :
            searchCampaigns(logText, query)
                = SelectSeq(logFile, LAMBDA logEntry : MatchesQuery(logEntry, query))

\* C22: getCampaigns returns one summary per record of the log, the most
\* recent first (timestamps descending), also when campaigns complete
\* concurrently; a summary has no successful and no failed list; total is the
\* number of records.
C22_SummariesLatestFirst ==
    LogIntact =>
        LET listed == getCampaigns(logText, 1, DefaultLimit)
        IN  /\ listed.total = Len(logFile)
            /\ Len(listed.campaigns) = Len(logFile)
            /\ \A k \in 1..Len(logFile) : Holds(listed.campaigns, Summary(logFile[k]))
            /\ \A k \in 1..Len(listed.campaigns) :
                   DOMAIN listed.campaigns[k] \cap {"successful", "failed"} = {}
            /\ \A j, k \in 1..Len(listed.campaigns) :
                   j < k => listed.campaigns[j].timestamp >= listed.campaigns[k].timestamp

\* validatePhoneNumber has returned for phoneNumber.
Validated == validation # NotValidated

\* The digits of a string.
DigitsOf(str) == SelectSeq(str, LAMBDA ch : ch \in Digits)

\* The table entries whose code prefixes the number, and the one among them
\* with the longest code.
PrefixingEntries(number) ==
    {i \in 1..Len(countryCodes) : IsPrefix(countryCodes[i].code, number)}
LongestPrefixing(number) ==
    countryCodes[CHOOSE i \in PrefixingEntries(number) :
                    \A j \in PrefixingEntries(number) :
                        Len(countryCodes[j].code) <= Len(countryCodes[i].code)]

\* C23: every value formatPhoneNumber returns consists of decimal digits
\* only, with no '+' and no leading zero, whatever the input.
C23_FormattedIsCanonical ==
    (Validated /\ validation.isValid) =>
        /\ \A k \in 1..Len(validation.formatted) : validation.formatted[k] \in Digits
        /\ Head(validation.formatted) # "0"

\* C24: a number of digits that starts with a country code of the table
\* followed by exactly that country's subscriber length is returned
\* unchanged, for every table entry.
C24_CodedNumberUnchanged ==
    \A i \in 1..Len(countryCodes) :
        (/\ Validated
         /\ phoneNumber = DigitsOf(phoneNumber)
         /\ IsPrefix(countryCodes[i].code, phoneNumber)
         /\ Len(phoneNumber) - Len(countryCodes[i].code) = countryCodes[i].length)
            => /\ validation.isValid
               /\ validation.formatted = phoneNumber

\* C25: every input that cleans to exactly 10 digits is accepted and the
\* value returned is the default country code followed by those digits.
C25_TenDigitsGetDefaultCode ==
    (/\ Validated
     /\ Len(Cleaned(phoneNumber)) = 10
     /\ Cleaned(phoneNumber) = DigitsOf(Cleaned(phoneNumber)))
        => /\ validation.isValid
           /\ validation.formatted = <<"1">> \o Cleaned(phoneNumber)

\* C26: formatPhoneNumber is idempotent on what it accepts: the value it
\* returns is accepted again and returned as it is.
C26_FormatIsIdempotent ==
    revalidation # NotValidated =>
        /\ revalidation.isValid
        /\ revalidation.formatted = validation.formatted

\* C27: when several table codes prefix the number, it is classified under
\* the longest of them: it is accepted exactly if the digits after that code
\* are as many as that country's subscriber length, and a rejection names
\* that country.
C27_LongestCodeWins ==
    (Validated /\ PrefixingEntries(Prefixed(phoneNumber)) # {}) =>
        IF Len(Prefixed(phoneNumber)) - Len(LongestPrefixing(Prefixed(phoneNumber)).code)
               = LongestPrefixing(Prefixed(phoneNumber)).length
        THEN validation.isValid
        ELSE /\ ~validation.isValid
             /\ validation.error =
                    Rejected(LengthError(LongestPrefixing(Prefixed(phoneNumber)))).error

\* A number that codes 1 and 1876 prefix was rejected for Jamaica's length.
C27_Witness ==
    /\ Validated
    /\ Cardinality(PrefixingEntries(Prefixed(phoneNumber))) = 2
    /\ ~validation.isValid
    /\ LongestPrefixing(Prefixed(phoneNumber)).country = "Jamaica"

\* C28: a value is returned only if its length is between 10 and 15; an input
\* whose cleaned and prefixed form is shorter than 10 or longer than 15 is
\* rejected.
C28_LengthBetween10And15 ==
    Validated =>
        /\ validation.isValid =>
               (Len(validation.formatted) >= 10 /\ Len(validation.formatted) <= 15)
        /\ (Len(Prefixed(phoneNumber)) < 10 \/ Len(Prefixed(phoneNumber)) > 15)
               => ~validation.isValid

\* A number of nine digits that no table code prefixes was rejected.
C28_Witness ==
    /\ Validated
    /\ Len(Prefixed(phoneNumber)) = 9
    /\ PrefixingEntries(Prefixed(phoneNumber)) = {}
    /\ ~validation.isValid

\* C29: when the first table code that prefixes the number is followed by a
\* number of digits other than that country's subscriber length, the number
\* is rejected with an invalid-length reason: it is not accepted under
\* another code or without one.
C29_WrongLengthRejected ==
    (/\ Validated
     /\ FirstMatch(Prefixed(phoneNumber)) # 0
     /\ Len(Prefixed(phoneNumber)) - Len(sortedCodes[FirstMatch(Prefixed(phoneNumber))].code)
            # sortedCodes[FirstMatch(Prefixed(phoneNumber))].length)
        => /\ ~validation.isValid
           /\ revalidation = NotValidated
           /\ \E i \in 1..Len(countryCodes) :
                  /\ IsPrefix(countryCodes[i].code, Prefixed(phoneNumber))
                  /\ validation.error = Rejected(LengthError(countryCodes[i])).error

\* A number with one digit too many after code 977 was rejected.
C29_Witness ==
    /\ Validated
    /\ phoneNumber = <<"9", "7", "7">> \o Subscriber(10 + 1)
    /\ ~validation.isValid

\* The worked example: template 'Hi {name}!' and the contacts Amit
\* (9841234567) and Bad (123).
ExampleTemplate == <<"H", "i", " ", "{", "n", "a", "m", "e", "}", "!">>
ExampleContacts == <<Amit, Bad>>
IsExample(c) ==
    /\ request[c].messageTemplate = ExampleTemplate
    /\ request[c].contacts = ExampleContacts

\* The reasons with which a number is rejected for its length.
LengthReasons ==
    {Rejected(LengthError(countryCodes[i])).error : i \in 1..Len(countryCodes)}
        \cup {FinalValidation(<<>>).error}

\* C30: in the worked example contact 1 is normalized to 9779841234567 and
\* is queued and sent with the message 'Hi Amit!', contact 2 is rejected for
\* its length, and the statistics of the record are total 2, successful 1,
\* failed 1.
C30_WorkedExample ==
    \A c \in Campaigns :
        IsExample(c) =>
            /\ \A k \in 1..Len(queue) :
                   queue[k].id = <<c, 1>> =>
                       /\ queue[k].chatId =
                              <<"9", "7", "7", "9", "8", "4", "1", "2", "3", "4", "5", "6", "7",
                                "@", "c", ".", "u", "s">>
                       /\ queue[k].message = <<"H", "i", " ", "A", "m", "i", "t", "!">>
            /\ response[c].status = 200 =>
                   /\ Len(results[c]) = 1
                   /\ results[c][1].contact = Amit
                   /\ results[c][1].formattedNumber =
                          <<"9", "7", "7", "9", "8", "4", "1", "2", "3", "4", "5", "6", "7">>
                   /\ results[c][1].personalizedMessage =
                          <<"H", "i", " ", "A", "m", "i", "t", "!">>
                   /\ Len(errors[c]) = 1
                   /\ errors[c][1].contact = Bad
                   /\ \E reason \in LengthReasons :
                          errors[c][1].error = "Invalid phone number: " \o reason
                   /\ response[c].statistics =
                          [total |-> 1 + 1, successful |-> 1, failed |-> 1]

\* The worked example without the normalized number: the message, the
\* rejection of contact 2 and the statistics.
C30_ExampleButNumber ==
    \A c \in Campaigns :
        IsExample(c) =>
            /\ \A k \in 1..Len(queue) :
                   queue[k].id = <<c, 1>> =>
                       queue[k].message = <<"H", "i", " ", "A", "m", "i", "t", "!">>
            /\ response[c].status = 200 =>
                   /\ Len(results[c]) = 1
                   /\ results[c][1].contact = Amit
                   /\ results[c][1].personalizedMessage =
                          <<"H", "i", " ", "A", "m", "i", "t", "!">>
                   /\ Len(errors[c]) = 1
                   /\ errors[c][1].contact = Bad
                   /\ \E reason \in LengthReasons :
                          errors[c][1].error = "Invalid phone number: " \o reason
                   /\ response[c].statistics =
                          [total |-> 1 + 1, successful |-> 1, failed |-> 1]

\* The worked example has returned its record.
C30_ExampleReturned ==
    \E c \in Campaigns : IsExample(c) /\ response[c].status = 200

\* The template with every occurrence of {name} replaced by the characters
\* of name.
RECURSIVE Rendered(_, _)
Rendered(template, name) ==
    IF template = <<>> THEN <<>>
    ELSE IF IsPrefix(<<"{", "n", "a", "m", "e", "}">>, template)
    THEN name \o Rendered(SubSeq(template, 7, Len(template)), name)
    ELSE <<Head(template)>> \o Rendered(Tail(template), name)

\* C31: the message queued for a contact is the template with every
\* occurrence of {name} replaced by the contact's trimmed name, character by
\* character, whatever the name contains, and the same text is the contact's
\* message in the handler's results and in the record written to the log.
C31_NameSubstitutedLiterally ==
    /\ \A k \in 1..Len(queue) :
           queue[k].message =
               Rendered(request[queue[k].id[1]].messageTemplate,
                        Trim(request[queue[k].id[1]].contacts[queue[k].id[2]].name))
    /\ \A c \in Campaigns : \A k \in 1..Len(results[c]) :
           results[c][k].personalizedMessage =
               Rendered(request[c].messageTemplate, Trim(results[c][k].contact.name))
    /\ \A j \in 1..Len(logFile) : \A k \in 1..Len(logFile[j].successful) :
           logFile[j].successful[k].actualMessage =
               Rendered(logFile[j].messageTemplate, Trim(logFile[j].successful[k].name))

\* C32: every response of a completed campaign holds the list of successful
\* contacts, the list of failed contacts and the statistics, also when no
\* contact failed and when every contact failed.
C32_ResponseHoldsBothLists ==
    \A c \in Campaigns :
        response[c].status = 200 =>
            /\ "statistics" \in DOMAIN response[c]
            /\ "results" \in DOMAIN response[c].details
            /\ "errors" \in DOMAIN response[c].details

\* With a contact that failed, the response holds both lists and they are
\* the handler's lists, also when every contact failed.
C32_ListsWhenSomeFailed ==
    \A c \in Campaigns :
        (response[c].status = 200 /\ Len(errors[c]) > 0) =>
            /\ DOMAIN response[c].details = {"results", "errors"}
            /\ response[c].details.results = results[c]
            /\ response[c].details.errors = errors[c]

C34_FailedEntryComplete ==
    \A j \in 1..Len(logFile) : \A k \in 1..Len(logFile[j].failed) :
        DOMAIN logFile[j].failed[k] = {"name", "phoneNumber", "error", "timestamp"}

\* Every failed entry of a record in the log carries name, phoneNumber and
\* error.
C34_FailedEntryButTimestamp ==
    \A j \in 1..Len(logFile) : \A k \in 1..Len(logFile[j].failed) :
        {"name", "phoneNumber", "error"} \subseteq DOMAIN logFile[j].failed[k]

\* C35: every number validatePhoneNumber accepts starts with a code of the
\* table and has exactly that code's subscriber length after the code; a
\* number that no code of the table prefixes is not accepted.
C35_AcceptedUnderTableCode ==
    (Validated /\ validation.isValid) =>
        \E i \in 1..Len(countryCodes) :
            /\ IsPrefix(countryCodes[i].code, validation.formatted)
            /\ Len(validation.formatted) - Len(countryCodes[i].code)
                   = countryCodes[i].length

\* Every accepted number that a code of the table prefixes has the
\* subscriber length of the longest such code after it.
C35_LengthUnderMatchedCode ==
    (/\ Validated
     /\ validation.isValid
     /\ PrefixingEntries(validation.formatted) # {})
        => Len(validation.formatted) - Len(LongestPrefixing(validation.formatted).code)
               = LongestPrefixing(validation.formatted).length

\* Positions from..to of a list, as far as the list goes.
Slice(seq, from, to) ==
    SubSeq(seq, from, IF to < Len(seq) THEN to ELSE Len(seq))

\* C36: getCampaigns(page, limit) returns at most limit summaries, those at
\* positions (page-1)*limit .. page*limit-1 (counted from 0) of the whole
\* listing, and total is the number of records in the log.
C36_PageOfSummaries ==
    \A page \in 1..2, limit \in 1..2 :
        /\ Len(getCampaigns(logText, page, limit).campaigns) <= limit
        /\ getCampaigns(logText, page, limit).campaigns =
               Slice(getCampaigns(logText, 1, DefaultLimit).campaigns,
                     (page - 1) * limit + 1, page * limit)
        /\ getCampaigns(logText, page, limit).total = Len(logFile)

\* total is the number of records in the log, whatever page and limit are.
C36_TotalCountsRecords ==
    \A page \in 1..2, limit \in 1..2 :
        getCampaigns(logText, page, limit).total = Len(logFile)

\* C37: at most one reconnection timer is pending at any time, and a timer
\* that expires calls client.initialize() only on a client that is neither
\* ready nor being initialized, however the events of the transport and the
\* expiries interleave.
C37_OneReconnectionAtATime ==
    [][/\ Len(timers') <= 1
       /\ Len(timers') < Len(timers) => transport = "dead"]_vars

\* C38: in every session state the answer of the status endpoint does not
\* hold isConnected = true together with a pairing payload.
C38_ConnectedWithoutQr == ~(StatusIsConnected /\ StatusQrCode # NoQr)

\* The session is flagged ready while a pairing payload is still stored, and
\* the status answer holds no payload.
C38_Witness ==
    /\ isClientReady
    /\ qrCode # NoQr
    /\ StatusIsConnected
    /\ StatusQrCode = NoQr

\* C39: reconnectAttempts is always within 0..MAX_RECONNECT_ATTEMPTS; a step
\* schedules a reconnection exactly if it increments the counter, and then by
\* one; the counter changes in no other way except that a ready event sets
\* it to 0 (a qr or authenticated event leaves it).
C39_AttemptsCountReconnections ==
    [][/\ reconnectAttempts' \in 0..MAX_RECONNECT_ATTEMPTS
       /\ Len(timers') > Len(timers) <=> reconnectAttempts' = reconnectAttempts + 1
       /\ Len(timers') > Len(timers) => Len(timers') = Len(timers) + 1
       /\ reconnectAttempts' \in {reconnectAttempts, reconnectAttempts + 1, 0}
       /\ reconnectAttempts' < reconnectAttempts =>
              (transport = "authed" /\ transport' = "ready")]_vars

\* After a scheduled reconnection a payload was issued and the session was
\* authenticated, and the counter still counts the reconnection.
C39_Witness ==
    /\ transport = "authed"
    /\ qrCode # NoQr
    /\ reconnectAttempts >= 1

====
